---- MODULE Spec2Model ----
(***************************************************************************)
(* Server-side active-object index: server::ActiveObjectMgr and its        *)
(* server::SpatialMap (src/src/server/spatial_map.cpp).                    *)
(*                                                                         *)
(* Coordinates are f32 in the code.  They are held here as integers in     *)
(* half units (a coordinate h stands for the float h/2), so that the two   *)
(* float-to-integer conversions of the code, the truncating f32 -> s16     *)
(* conversion of SpatialKey(const v3f &) and std::lround of                *)
(* absoluteRoundUp, are the different functions they are in the code.      *)
(***************************************************************************)
EXTENDS Integers, Sequences, FiniteSets, Bags, TLC

\* ------------------------------------------------------------------ bounds
\* ids are u16 in the code (1..65535, 0 is "none"); the model uses 1..MaxId
MaxId == 2
\* nesting depth of query traversals (a predicate may start a query)
MaxDepth == 2
\* manager calls the predicates of one outermost query may make
MaxCbOps == 2
\* entries m_cached may hold (stale/duplicate entries are not bounded by the code)
MaxCached == 3
\* objectpos_over_limit: |coordinate| limit of the world, in half units
WorldLimit == 100
\* the most far-away objects registered next to the two of scenario B
MaxFar == 7

\* largest coordinate of the boxes and positions whose cells are compared
MaxCoord == 33

\* POS_RANGE of the benchmark: coordinates lie in [-POS_RANGE, POS_RANGE]
POS_RANGE == 2001
Ids == 1..MaxId

\* ------------------------------------------------------------ cell mathematics
\* f32 -> s16 conversion of SpatialKey(const v3f &): truncation toward zero
f32_to_s16(h) == IF h >= 0 THEN h \div 2 ELSE -((-h) \div 2)

\* std::lround: nearest integer, halves away from zero
lround(h) == IF h >= 0 THEN (h + 1) \div 2 ELSE -((1 - h) \div 2)

\* s16 >> 4: arithmetic shift, i.e. floor division by 16
shr4(v) == v \div 16

\* SpatialKey(const v3f &_pos) : SpatialKey(_pos.X, _pos.Y, _pos.Z), _shrink = true
SpatialKey(pos) ==
    << shr4(f32_to_s16(pos[1])), shr4(f32_to_s16(pos[2])), shr4(f32_to_s16(pos[3])) >>

\* the lambda absoluteRoundUp of getRelevantObjectIds
absoluteRoundUp(h) ==
    LET rounded   == lround(h)
        remainder == IF rounded % 16 # 0 THEN 1 ELSE 0
    IN  shr4(rounded) + (IF rounded < 0 THEN -remainder ELSE remainder)

AbsInt(v) == IF v < 0 THEN -v ELSE v

\* v3s16 min(...), max(...) of getRelevantObjectIds
CellMin(box) == << absoluteRoundUp(box[1][1]), absoluteRoundUp(box[1][2]), absoluteRoundUp(box[1][3]) >>
CellMax(box) == << absoluteRoundUp(box[2][1]), absoluteRoundUp(box[2][2]), absoluteRoundUp(box[2][3]) >>

\* number_of_mapblocks_to_check
NumberOfMapblocks(box) ==
    LET mn == CellMin(box)
        mx == CellMax(box)
    IN  AbsInt(mx[1] - mn[1]) * AbsInt(mx[2] - mn[2]) * AbsInt(mx[3] - mn[3])

\* conversion to s16: the value modulo 2^16
s16(v) == ((v + 32768) % 65536) - 32768

\* v3s16 diff = max - min
CellDiff(box) == [i \in 1..3 |-> s16(CellMax(box)[i] - CellMin(box)[i])]

\* The product ab * c of two non-negative numbers, ab < 2^24 and c < 2^15, as a
\* number of two digits of 16 bits and more: << hi, lo >> stands for hi * 2^16 + lo
Product(ab, c) ==
    LET low == (ab % 65536) * c
    IN  << (ab \div 65536) * c + low \div 65536, low % 65536 >>

\* a uint64_t of four 16-bit digits, most significant first, from << hi, lo >>
u64(p) == << 0, p[1] \div 65536, p[1] % 65536, p[2] >>

\* what the bits of an int (32 bits) give when converted to uint64_t: the two low
\* digits, under two digits of sign extension
s32_to_u64(p) ==
    LET ext == IF p[1] % 65536 >= 32768 THEN 65535 ELSE 0
    IN  << ext, ext, p[1] % 65536, p[2] >>

\* uint64_t number_of_mapblocks_to_check = std::abs(diff.X) * std::abs(diff.Y) *
\* std::abs(diff.Z): a product of three int, converted afterwards. When it does
\* not fit an int the behaviour is undefined: the build yields the product
\* wrapped to 32 bits, or the product of a multiplication it chose to widen.
number_of_mapblocks_to_check(box) ==
    LET diff == CellDiff(box)
        p    == Product(AbsInt(diff[1]) * AbsInt(diff[2]), AbsInt(diff[3]))
    IN  IF p[1] < 32768 THEN { u64(p) } ELSE { s32_to_u64(p), u64(p) }

\* the three nested loops: x in [min.X, max.X), y in [min.Y, max.Y), z in [min.Z, max.Z)
InCellRange(key, box) ==
    LET mn == CellMin(box)
        mx == CellMax(box)
    IN  \A i \in 1..3 : mn[i] <= key[i] /\ key[i] < mx[i]

\* order in which the nested loops reach two cells
LexLess(a, b) ==
    \/ a[1] < b[1]
    \/ a[1] = b[1] /\ a[2] < b[2]
    \/ a[1] = b[1] /\ a[2] = b[2] /\ a[3] < b[3]

\* aabb3f::isPointInside: bounds inclusive
isPointInside(box, p) == \A i \in 1..3 : box[1][i] <= p[i] /\ p[i] <= box[2][i]

\* v3f::getDistanceFromSQ (in squared half units)
getDistanceFromSQ(p, c) ==
    (p[1] - c[1]) * (p[1] - c[1]) + (p[2] - c[2]) * (p[2] - c[2]) + (p[3] - c[3]) * (p[3] - c[3])

\* objectpos_over_limit of the map collaborator
objectpos_over_limit(p) == \E i \in 1..3 : p[i] > WorldLimit \/ p[i] < -WorldLimit

\* ------------------------------------------------------------------- inputs
\* positions objects take: (0,0,0), (16,0,0), (-20,0,0), (8,8,8)
InWorldPositions == { <<0, 0, 0>>, <<32, 0, 0>>, <<-40, 0, 0>>, <<16, 16, 16>> }
\* a position outside the world: (60,0,0)
OutsidePositions == { <<120, 0, 0>> }
Positions == InWorldPositions \cup OutsidePositions
\* one position per cell of InWorldPositions: arguments of the position-update hook,
\* of which updatePosition reads the cells only
HookPositions == { <<0, 0, 0>>, <<32, 0, 0>>, <<-40, 0, 0>> }

\* bounds of getObjectsInsideRadius: pos -/+ radius
RadiusBounds(pos, radius) ==
    << <<pos[1] - radius, pos[2] - radius, pos[3] - radius>>,
       <<pos[1] + radius, pos[2] + radius, pos[3] + radius>> >>

AreaQuery(mn, mx, pred) ==
    [kind |-> "area", box |-> <<mn, mx>>, pos |-> mn, radius |-> 0, pred |-> pred]
RadiusQuery(pos, radius, pred) ==
    [kind |-> "radius", box |-> RadiusBounds(pos, radius), pos |-> pos, radius |-> radius,
     pred |-> pred]

\* boxes (0,0,0)-(16,16,16), without and with an include predicate, and
\* (-32,-16,-16)-(-16,0,0)
AreaQueries ==
    { AreaQuery(<<0, 0, 0>>, <<32, 32, 32>>, FALSE),
      AreaQuery(<<0, 0, 0>>, <<32, 32, 32>>, TRUE),
      AreaQuery(<<-64, -32, -32>>, <<-32, 0, 0>>, FALSE) }
\* spheres: centre (0,0,0) radius 16, without and with an include predicate, and
\* centre (8,8,8) radius 2
RadiusQueries ==
    { RadiusQuery(<<0, 0, 0>>, 32, FALSE),
      RadiusQuery(<<0, 0, 0>>, 32, TRUE),
      RadiusQuery(<<16, 16, 16>>, 4, FALSE) }

\* a query whose include predicate reads the object and answers: it returns true
\* for the objects whose id is in accept (accept = {}: it returns false for all,
\* as the predicates of benchGetObjectsInsideRadius / benchGetObjectsInArea do)
FilteredQuery(q, accept) ==
    [kind |-> q.kind, box |-> q.box, pos |-> q.pos, radius |-> q.radius, pred |-> q.pred,
     accept |-> accept]

\* the box and sphere queries, those with a predicate with each kind of answer
FilteredQueries ==
    { FilteredQuery(q, {}) : q \in { x \in AreaQueries \cup RadiusQueries : ~x.pred } }
      \cup { FilteredQuery(q, accept) :
                q \in { x \in AreaQueries \cup RadiusQueries : x.pred },
                accept \in { {}, {1}, Ids } }

\* getAddedActiveObjectsAroundPos: offset = radius > player_radius ? radius : player_radius,
\* bounds = player_pos -/+ offset
AddedQuery(player_pos, radius, player_radius, current_objects) ==
    [kind |-> "added",
     box |-> RadiusBounds(player_pos,
                          IF radius > player_radius THEN radius ELSE player_radius),
     pos |-> player_pos, radius |-> radius, pred |-> FALSE,
     player_radius |-> player_radius, current_objects |-> current_objects]

\* around (0,0,0): radius 16, player_radius 8, nothing or object 1 known already;
\* radius 16, player_radius 0;
\* around (8,8,8): radius 2, player_radius 1; radius 8, player_radius 0
AddedQueries ==
    { AddedQuery(<<0, 0, 0>>, 32, 16, {}),
      AddedQuery(<<0, 0, 0>>, 32, 16, {1}),
      AddedQuery(<<0, 0, 0>>, 32, 0, {}),
      AddedQuery(<<16, 16, 16>>, 4, 2, {}),
      AddedQuery(<<16, 16, 16>>, 16, 0, {}) }

\* -------------------------------------------------------------------- state
VARIABLES
    objects,   \* m_active_objects: id -> [pos, type, gone] of the object
    cached,    \* SpatialMap::m_cached: bag of <<SpatialKey, id>>
    stack,     \* active getRelevantObjectIds traversals, innermost last
    fault,     \* "none", or the memory fault the process ended in
    ret,       \* the last step when it was a call of registerObject (arguments, id,
               \* error), removeObject (id) or clear
    snap,      \* m_cached when the outermost active traversal began
    log,       \* effects of the calls predicates made since that traversal began
    sweep,     \* the m_active_objects.iter() loop of an active step()
    tsrc       \* the client's TextureSource and the threads that call it

vars == << objects, cached, stack, fault, ret, snap, log, sweep, tsrc >>

\* no entry (ids are u16: -1 is no id, so this is not an entry m_cached can hold)
NoEntry == << <<0, 0, 0>>, -1 >>

BagAdd(B, e) == B (+) SetToBag({e})
BagRemove(B, e) == B (-) SetToBag({e})

\* entries of B that carry id
EntriesOf(B, id) == { e \in BagToSet(B) : e[2] = id }

iter_depth == Len(stack)

\* no step() is active.  Of an active step(): todo, the ids the loop has still to
\* reach; infn, f is running, called for cur; gone, the ids whose object was
\* removed since the loop began (their slot holds a null pointer for this loop);
\* start, the ids that were live when the loop began; called, the ids f was
\* called for, in order; ops, the manager calls f made
NoSweep ==
    [active |-> FALSE, todo |-> {}, infn |-> FALSE, cur |-> 0, gone |-> {},
     start |-> {}, called |-> << >>, ops |-> 0]
Top == stack[Len(stack)]

\* a manager method can be called by the server loop, or by a predicate that a query is running
CanCall ==
    /\ fault = "none"
    /\ IF stack = << >> THEN TRUE ELSE Top.incb /\ Len(log) < MaxCbOps
    /\ sweep.active => sweep.infn /\ sweep.ops < MaxCbOps

\* ret of a step that is no registerObject call
NoCall == [op |-> "none", err |-> "none", id |-> 0, arg |-> 0, pos |-> <<0, 0, 0>>]
\* the record of a call of method op with argument arg
Called(op, arg) == [NoCall EXCEPT !.op = op, !.arg = arg]

\* --------------------------------------------------------------- SpatialMap
\* What one SpatialMap call does to m_cached: the entry it erases, the entry it
\* inserts, whether it clears.  A call yields a set of effects where the result
\* depends on the iteration order of the unordered_multimap.
NoEffect == [erased |-> NoEntry, inserted |-> NoEntry, cleared |-> FALSE]

\* insert filing the position under its unshifted coordinates (_shrink = false)
insert_unshifted(id, pos) ==
    { [NoEffect EXCEPT !.inserted =
         << <<f32_to_s16(pos[1]), f32_to_s16(pos[2]), f32_to_s16(pos[3])>>, id >>] }

\* SpatialMap::insert
insert(id, pos) == { [NoEffect EXCEPT !.inserted = <<SpatialKey(pos), id>>] }

\* SpatialMap::remove(u16 id): erase the first entry carrying id, if any
remove(id) ==
    IF EntriesOf(cached, id) = {}
    THEN { NoEffect }
    ELSE { [NoEffect EXCEPT !.erased = e] : e \in EntriesOf(cached, id) }

\* remove(id, pos) without the fallback remove(id)
remove_pos_no_fallback(id, pos) ==
    IF BagIn(<<SpatialKey(pos), id>>, cached)
    THEN { [NoEffect EXCEPT !.erased = <<SpatialKey(pos), id>>] }
    ELSE { NoEffect }

\* SpatialMap::remove(u16 id, const v3f &pos)
remove_pos(id, pos) ==
    IF BagIn(<<SpatialKey(pos), id>>, cached)
    THEN { [NoEffect EXCEPT !.erased = <<SpatialKey(pos), id>>] }
    ELSE remove(id)

\* updatePosition without the erase from the old bucket
updatePosition_keep_old(id, oldPos, newPos) ==
    IF BagIn(<<SpatialKey(newPos), id>>, cached)
    THEN { NoEffect }
    ELSE { [NoEffect EXCEPT !.inserted = <<SpatialKey(newPos), id>>] }

\* updatePosition without the early return and without the erase
updatePosition_insert_only(id, oldPos, newPos) ==
    { [NoEffect EXCEPT !.inserted = <<SpatialKey(newPos), id>>] }

\* SpatialMap::updatePosition
updatePosition(id, oldPos, newPos) ==
    IF BagIn(<<SpatialKey(newPos), id>>, cached)
    THEN { NoEffect }
    ELSE { [erased   |-> IF BagIn(<<SpatialKey(oldPos), id>>, cached)
                         THEN <<SpatialKey(oldPos), id>> ELSE NoEntry,
            inserted |-> <<SpatialKey(newPos), id>>,
            cleared  |-> FALSE] }

\* SpatialMap::removeAll
removeAll == { [NoEffect EXCEPT !.cleared = TRUE] }

\* m_cached after a call with effect eff
ApplyEffect(B, eff) ==
    IF eff.cleared THEN EmptyBag
    ELSE LET B1 == IF eff.erased # NoEntry THEN BagRemove(B, eff.erased) ELSE B
         IN  IF eff.inserted # NoEntry THEN BagAdd(B1, eff.inserted) ELSE B1

\* The iterator of an active traversal F (it stands on F.cur, inside callback(it->second))
\* after m_cached was changed under it.  clear() frees every node and an insert may
\* rehash: the iterator is invalid.  An erase frees one node: the iterator is invalid
\* when that node is the one it stands on, or, in the cell walk, when it is the node
\* range.second stands on (the first node after the bucket's range, an entry of
\* another cell).  Any other erase only takes the entry out of what is left to visit.
FrameAfter(F, eff) ==
    IF eff = NoEffect THEN F
    ELSE IF \/ eff.cleared
            \/ eff.inserted # NoEntry
            \/ eff.erased = F.cur
            \/ F.mode = "walk" /\ eff.erased[1] # F.cur[1]
         THEN [F EXCEPT !.ub = TRUE, !.todo = EmptyBag]
         ELSE [F EXCEPT !.todo = BagRemove(@, eff.erased)]

\* the active traversals after a SpatialMap call of effect eff
StackAfterCall(eff) == [i \in 1..Len(stack) |-> FrameAfter(stack[i], eff)]

\* a SpatialMap call of effect eff made by a manager method
Mutate(eff) ==
    /\ cached' = ApplyEffect(cached, eff)
    /\ stack' = StackAfterCall(eff)
    /\ log' = IF stack = << >> THEN log ELSE Append(log, eff)
    /\ snap' = snap

\* ------------------------------------------------------------- ObjectStore
\* m_active_objects seen by an active iter() loop after a manager call: an object
\* removed during the loop leaves a null pointer in its slot
StoreIterAfterCall ==
    sweep' = IF sweep.active
             THEN [sweep EXCEPT !.gone = @ \cup (DOMAIN objects \ DOMAIN objects'),
                                !.ops = @ + 1]
             ELSE sweep

\* ::ActiveObjectMgr<ServerActiveObject>::isFreeId
isFreeId(id) == id # 0 /\ id \notin DOMAIN objects

\* ::ActiveObjectMgr<ServerActiveObject>::getFreeId: a free id, 0 when there is none
getFreeId == IF Ids \ DOMAIN objects = {} THEN {0} ELSE Ids \ DOMAIN objects

\* m_active_objects.put
put(id, obj) == [i \in DOMAIN objects \cup {id} |-> IF i = id THEN obj ELSE objects[i]]

\* m_active_objects.remove
StoreRemove(id) == [i \in DOMAIN objects \ {id} |-> objects[i]]

\* ----------------------------------------------------------- ActiveObjectMgr
\* registerObject with the spatial insert done before the position check
registerObject_insert_first(obj_id, pos, type) ==
    /\ CanCall
    /\ \E new_id \in (IF obj_id = 0 THEN getFreeId ELSE {obj_id}) :
        IF new_id = 0 \/ ~isFreeId(new_id)
        THEN /\ ret' = [op  |-> "registerObject",
                        err |-> IF new_id = 0 THEN "no free id" ELSE "id is not free",
                        id  |-> new_id, arg |-> obj_id, pos |-> pos]
             /\ Mutate(NoEffect)
             /\ UNCHANGED << objects, fault >>
        ELSE /\ BagCardinality(cached) < MaxCached
             /\ \E eff \in insert(new_id, pos) : Mutate(eff)
             /\ objects' = IF objectpos_over_limit(pos) THEN objects
                           ELSE put(new_id, [pos |-> pos, type |-> type, gone |-> FALSE])
             /\ ret' = [op  |-> "registerObject",
                        err |-> IF objectpos_over_limit(pos) THEN "outside maximum range"
                                ELSE "none",
                        id  |-> new_id, arg |-> obj_id, pos |-> pos]
             /\ UNCHANGED fault
    /\ StoreIterAfterCall
    /\ UNCHANGED tsrc

\* registerObject without the tests of the id (new_id == 0, isFreeId)
registerObject_unchecked_id(obj_id, pos, type) ==
    /\ CanCall
    /\ \E new_id \in (IF obj_id = 0 THEN getFreeId ELSE {obj_id}) :
        IF objectpos_over_limit(pos)
        THEN /\ ret' = [op  |-> "registerObject", err |-> "outside maximum range",
                        id  |-> new_id, arg |-> obj_id, pos |-> pos]
             /\ Mutate(NoEffect)
             /\ UNCHANGED << objects, fault >>
        ELSE /\ BagCardinality(cached) < MaxCached
             /\ \E eff \in insert(new_id, pos) : Mutate(eff)
             /\ objects' = put(new_id, [pos |-> pos, type |-> type, gone |-> FALSE])
             /\ ret' = [op  |-> "registerObject", err |-> "none",
                        id  |-> new_id, arg |-> obj_id, pos |-> pos]
             /\ UNCHANGED fault
    /\ StoreIterAfterCall
    /\ UNCHANGED tsrc

\* ActiveObjectMgr::registerObject; obj_id is obj->getId() on entry, pos its position,
\* type its getType()
registerObject(obj_id, pos, type) ==
    /\ CanCall
    /\ \E new_id \in (IF obj_id = 0 THEN getFreeId ELSE {obj_id}) :
        IF new_id = 0 \/ ~isFreeId(new_id) \/ objectpos_over_limit(pos)
        THEN /\ ret' = [op  |-> "registerObject",
                        err |-> IF new_id = 0 THEN "no free id"
                                ELSE IF ~isFreeId(new_id) THEN "id is not free"
                                ELSE "outside maximum range",
                        id  |-> new_id, arg |-> obj_id, pos |-> pos]
             /\ Mutate(NoEffect)
             /\ UNCHANGED << objects, fault >>
        ELSE /\ BagCardinality(cached) < MaxCached
             /\ \E eff \in insert(new_id, pos) : Mutate(eff)
             /\ objects' = put(new_id, [pos |-> pos, type |-> type, gone |-> FALSE])
             /\ ret' = [op  |-> "registerObject", err |-> "none",
                        id  |-> new_id, arg |-> obj_id, pos |-> pos]
             /\ UNCHANGED fault
    /\ StoreIterAfterCall
    /\ UNCHANGED tsrc

\* ActiveObjectMgr::removeObject; m_active_objects.get(id).get() is null for an
\* id that is not in the store, and ->getBasePosition() then reads through null:
\* the process faults, or the read yields some position and remove(id, pos) goes on
\* (an entry of id, if any, is erased from its bucket or by the fallback remove(id))
\* (ret records whether remove(id, pos) found the entry in the bucket of pos)
removeObject(id) ==
    /\ CanCall
    /\ IF id \notin DOMAIN objects
       THEN /\ ret' = Called("removeObject", id)
            /\ \/ /\ fault' = "null object"
                  /\ UNCHANGED << objects, cached, stack, snap, log >>
               \/ /\ \E eff \in remove(id) : Mutate(eff)
                  /\ UNCHANGED << objects, fault >>
       ELSE /\ ret' = [Called("removeObject", id) EXCEPT !.err =
                         IF BagIn(<<SpatialKey(objects[id].pos), id>>, cached)
                         THEN "none" ELSE "not in bucket"]
            /\ \E eff \in remove_pos(id, objects[id].pos) : Mutate(eff)
            /\ objects' = StoreRemove(id)
            /\ UNCHANGED fault
    /\ StoreIterAfterCall
    /\ UNCHANGED tsrc

\* clear without m_spatial_map.removeAll()
clear_store_only ==
    /\ CanCall
    /\ objects' = << >>
    /\ Mutate(NoEffect)
    /\ ret' = Called("clear", BagCardinality(cached))
    /\ UNCHANGED fault
    /\ StoreIterAfterCall
    /\ UNCHANGED tsrc

\* ActiveObjectMgr::clear (ret records m_cached.size() at the call)
clear ==
    /\ CanCall
    /\ objects' = << >>
    /\ \E eff \in removeAll : Mutate(eff)
    /\ ret' = Called("clear", BagCardinality(cached))
    /\ UNCHANGED fault
    /\ StoreIterAfterCall
    /\ UNCHANGED tsrc

\* ActiveObjectMgr::clearIf; P is the set of ids for which cb returns true: those
\* objects are removed from m_active_objects, m_spatial_map is not touched
clearIf(P) ==
    /\ CanCall
    /\ objects' = [i \in DOMAIN objects \ P |-> objects[i]]
    /\ Mutate(NoEffect)
    /\ ret' = Called("clearIf", 0)
    /\ UNCHANGED fault
    /\ StoreIterAfterCall
    /\ UNCHANGED tsrc

\* ActiveObjectMgr::updateObjectPosition
updateObjectPosition(id, last_position, new_position) ==
    /\ CanCall
    /\ BagCardinality(cached) < MaxCached
    /\ \E eff \in updatePosition(id, last_position, new_position) : Mutate(eff)
    /\ ret' = NoCall
    /\ UNCHANGED << objects, fault >>
    /\ StoreIterAfterCall
    /\ UNCHANGED tsrc

\* An object moves: its position is set and updateObjectPosition is called with
\* the position it had (the protocol of the position-update hook).
moveObject(id, new_position) ==
    /\ CanCall
    /\ id \in DOMAIN objects
    /\ objects[id].pos # new_position
    /\ BagCardinality(cached) < MaxCached
    /\ \E eff \in updatePosition(id, objects[id].pos, new_position) : Mutate(eff)
    /\ objects' = [objects EXCEPT ![id].pos = new_position]
    /\ ret' = NoCall
    /\ UNCHANGED fault
    /\ StoreIterAfterCall
    /\ UNCHANGED tsrc

\* ServerActiveObject::setBasePosition called on a registered object, the manager
\* not being told (obj->setBasePosition(randpos()) of the benchmark)
setBasePosition(id, pos) ==
    /\ CanCall
    /\ id \in DOMAIN objects
    /\ objects[id].pos # pos
    /\ objects' = [objects EXCEPT ![id].pos = pos]
    /\ Mutate(NoEffect)
    /\ ret' = NoCall
    /\ UNCHANGED fault
    /\ StoreIterAfterCall
    /\ UNCHANGED tsrc

\* ServerActiveObject::markForRemoval on a registered object: isGone() is true
\* from then on; the object stays in the store and in the map
markForRemoval(id) ==
    /\ CanCall
    /\ id \in DOMAIN objects
    /\ ~objects[id].gone
    /\ objects' = [objects EXCEPT ![id].gone = TRUE]
    /\ Mutate(NoEffect)
    /\ ret' = NoCall
    /\ UNCHANGED fault
    /\ StoreIterAfterCall
    /\ UNCHANGED tsrc

\* --------------------------------------------- SpatialMap called on its own
\* the record of a SpatialMap call: method, id, position arguments, and
\* m_cached.size() when it was called
MapCalled(op, id, oldPos, pos) ==
    [op |-> op, err |-> "none", id |-> id, arg |-> BagCardinality(cached), pos |-> pos,
     old |-> oldPos]

\* whether remove(id, pos) finds id in the bucket of pos
InBucket(id, pos) ==
    IF BagIn(<<SpatialKey(pos), id>>, cached) THEN "none" ELSE "not in bucket"

\* m_spatial_map.insert(id, pos)
SpatialMapInsert(id, pos) ==
    /\ CanCall
    /\ BagCardinality(cached) < MaxCached
    /\ \E eff \in insert(id, pos) : Mutate(eff)
    /\ ret' = MapCalled("insert", id, pos, pos)
    /\ UNCHANGED << objects, fault >>
    /\ StoreIterAfterCall
    /\ UNCHANGED tsrc

\* m_spatial_map.remove(id, pos)
SpatialMapRemovePos(id, pos) ==
    /\ CanCall
    /\ \E eff \in remove_pos(id, pos) : Mutate(eff)
    /\ ret' = [MapCalled("remove_pos", id, pos, pos) EXCEPT !.err = InBucket(id, pos)]
    /\ UNCHANGED << objects, fault >>
    /\ StoreIterAfterCall
    /\ UNCHANGED tsrc

\* m_spatial_map.remove(id)
SpatialMapRemove(id) ==
    /\ CanCall
    /\ \E eff \in remove(id) : Mutate(eff)
    /\ ret' = MapCalled("remove", id, <<0, 0, 0>>, <<0, 0, 0>>)
    /\ UNCHANGED << objects, fault >>
    /\ StoreIterAfterCall
    /\ UNCHANGED tsrc

\* m_spatial_map.updatePosition(id, oldPos, newPos)
SpatialMapUpdatePosition(id, oldPos, newPos) ==
    /\ CanCall
    /\ BagCardinality(cached) < MaxCached
    /\ \E eff \in updatePosition(id, oldPos, newPos) : Mutate(eff)
    /\ ret' = MapCalled("updatePosition", id, oldPos, newPos)
    /\ UNCHANGED << objects, fault >>
    /\ StoreIterAfterCall
    /\ UNCHANGED tsrc

\* m_spatial_map.remove(id, pos) followed by m_spatial_map.insert(id, pos)
SpatialMapRemoveInsert(id, pos) ==
    /\ CanCall
    /\ BagCardinality(cached) < MaxCached \/ EntriesOf(cached, id) # {}
    /\ \E e1 \in remove_pos(id, pos) : \E e2 \in insert(id, pos) :
          Mutate([erased |-> e1.erased, inserted |-> e2.inserted, cleared |-> FALSE])
    /\ ret' = [MapCalled("remove_pos, insert", id, pos, pos) EXCEPT !.err = InBucket(id, pos)]
    /\ UNCHANGED << objects, fault >>
    /\ StoreIterAfterCall
    /\ UNCHANGED tsrc

\* m_cached.erase(key) taking one entry of the key's bucket only
removeMapblock_one(mapblockOrigin) ==
    LET S == { e \in BagToSet(cached) : e[1] = SpatialKey(mapblockOrigin) }
    IN  IF S = {} THEN cached ELSE BagRemove(cached, CHOOSE e \in S : TRUE)

\* SpatialMap::removeMapblock: m_cached.erase(SpatialKey(mapblockOrigin)), which
\* erases every entry of that key; m_cached afterwards
removeMapblock(mapblockOrigin) ==
    LET S == { e \in BagToSet(cached) : e[1] # SpatialKey(mapblockOrigin) }
    IN  [e \in S |-> cached[e]]

\* m_spatial_map.removeMapblock(mapblockOrigin), no traversal being active
SpatialMapRemoveMapblock(mapblockOrigin) ==
    /\ CanCall
    /\ stack = << >>
    /\ cached' = removeMapblock(mapblockOrigin)
    /\ ret' = [op |-> "removeMapblock", err |-> "none", arg |-> BagCardinality(cached),
               pos |-> mapblockOrigin]
    /\ UNCHANGED << objects, stack, fault, snap, log >>
    /\ StoreIterAfterCall
    /\ UNCHANGED tsrc

\* ------------------------------------------------------------------ queries
\* getRelevantObjectIds, cell walk: the entries of the cells of [min, max)
WalkEntries(box) ==
    LET S == { e \in BagToSet(cached) : InCellRange(e[1], box) }
    IN  [e \in S |-> cached[e]]

\* the box of the cell that holds pos: [16c, 16(c+1)] on each axis
CellBox(pos) ==
    LET c == SpatialKey(pos)
    IN  << << 32 * c[1], 32 * c[2], 32 * c[3] >>,
           << 32 * (c[1] + 1), 32 * (c[2] + 1), 32 * (c[3] + 1) >> >>

\* m_spatial_map.getRelevantObjectIds(box, callback) with a callback that only
\* notes the id: the entries the callback was invoked for, each once
SpatialMapGetRelevantObjectIds(box) ==
    /\ CanCall
    /\ stack = << >>
    /\ ret' = [op |-> "getRelevantObjectIds", err |-> "none", arg |-> BagCardinality(cached),
               box |-> box,
               emitted |-> IF BagToSet(cached) = {} THEN EmptyBag
                           ELSE IF NumberOfMapblocks(box) <= BagCardinality(cached)
                           THEN WalkEntries(box)
                           ELSE cached]
    /\ UNCHANGED << objects, cached, stack, fault, snap, log >>
    /\ StoreIterAfterCall
    /\ UNCHANGED tsrc

\* getRelevantObjectIds: the strategy and the entries the traversal is to visit
NewFrame(q) ==
    LET walk == NumberOfMapblocks(q.box) <= BagCardinality(cached)
    IN  [q      |-> q,
         mode   |-> IF walk THEN "walk" ELSE "scan",
         todo   |-> IF walk THEN WalkEntries(q.box) ELSE cached,
         cur    |-> NoEntry,
         incb   |-> FALSE,
         ub     |-> FALSE,
         result |-> << >>]

\* ActiveObjectMgr::getObjectsInArea / getObjectsInsideRadius /
\* getAddedActiveObjectsAroundPos up to the first callback of getRelevantObjectIds; with m_cached empty the call returns at once
startQuery(q) ==
    /\ CanCall
    /\ Len(stack) < MaxDepth
    /\ IF BagToSet(cached) = {}
       THEN /\ stack' = stack
            /\ snap' = snap
       ELSE /\ stack' = Append(stack, NewFrame(q))
            /\ snap' = IF stack = << >> THEN cached ELSE snap
    /\ log' = IF stack = << >> THEN << >> ELSE Append(log, NoEffect)
    /\ ret' = NoCall
    /\ UNCHANGED << objects, cached, fault >>
    /\ UNCHANGED << sweep, tsrc >>

\* the exact test with the bounds excluded: a point on the box's surface, or at
\* the distance radius, fails
ExactTest_exclusive(q, objectpos) ==
    IF q.kind = "area"
    THEN \A i \in 1..3 : q.box[1][i] < objectpos[i] /\ objectpos[i] < q.box[2][i]
    ELSE getDistanceFromSQ(objectpos, q.pos) < q.radius * q.radius

\* the exact test of the query's lambda: box.isPointInside(objectpos), or
\* !(objectpos.getDistanceFromSQ(pos) > r2)
ExactTest(q, objectpos) ==
    IF q.kind = "area"
    THEN isPointInside(q.box, objectpos)
    ELSE ~(getDistanceFromSQ(objectpos, q.pos) > q.radius * q.radius)

\* the lambda of getAddedActiveObjectsAroundPos for a live object obj with this id:
\* skip when isGone(); distance_f = getDistanceFrom(player_pos), compared here by
\* its square; a player is discarded when distance_f > player_radius and
\* player_radius != 0, another object when distance_f > radius; an id found in
\* current_objects is discarded
AddedTest(q, id, obj) ==
    /\ ~obj.gone
    /\ IF obj.type = "player"
       THEN ~(getDistanceFromSQ(obj.pos, q.pos) > q.player_radius * q.player_radius
                /\ q.player_radius # 0)
       ELSE ~(getDistanceFromSQ(obj.pos, q.pos) > q.radius * q.radius)
    /\ id \notin q.current_objects

\* the test the lambda of the query q makes on the live object with this id
PassesTest(q, id) ==
    IF q.kind = "added"
    THEN AddedTest(q, id, objects[id])
    ELSE ExactTest(q, objects[id].pos)

\* entries the traversal F may reach next: any entry left in the scan, an entry of
\* the first cell left in the cell walk (the order inside a bucket is the hash's)
NextEntries(F) ==
    IF F.mode = "scan"
    THEN BagToSet(F.todo)
    ELSE { e \in BagToSet(F.todo) : \A d \in BagToSet(F.todo) : ~LexLess(d[1], e[1]) }

ReplaceTop(F) == [stack EXCEPT ![Len(stack)] = F]

\* one callback(it->second) of getRelevantObjectIds, up to the call of include_obj_cb
visit ==
    /\ fault = "none"
    /\ stack # << >>
    /\ ~Top.incb
    /\ ~Top.ub
    /\ \E e \in NextEntries(Top) :
        LET at == [Top EXCEPT !.todo = BagRemove(@, e), !.cur = e]
            id == e[2]
        IN  IF id \notin DOMAIN objects
            THEN \* if (!obj) { m_spatial_map.remove(id); return; }
                 \E eff \in remove(id) :
                    /\ cached' = ApplyEffect(cached, eff)
                    /\ stack' = [i \in 1..Len(stack) |->
                                   IF i = Len(stack)
                                   THEN [FrameAfter(at, eff) EXCEPT !.cur = NoEntry]
                                   ELSE FrameAfter(stack[i], eff)]
                    /\ log' = Append(log, eff)
            ELSE /\ stack' = ReplaceTop(
                        IF ~PassesTest(Top.q, id)
                        THEN [at EXCEPT !.cur = NoEntry]
                        ELSE IF Top.q.pred
                             THEN [at EXCEPT !.incb = TRUE]
                             ELSE [at EXCEPT !.cur = NoEntry, !.result = Append(@, id)])
                 /\ UNCHANGED << cached, log >>
    /\ ret' = NoCall
    /\ UNCHANGED << objects, fault, snap >>
    /\ UNCHANGED << sweep, tsrc >>

\* if (... include_obj_cb(obj)) result.push_back(obj) pushing whatever the
\* predicate returns
callbackReturn_always_include(b) ==
    /\ fault = "none"
    /\ stack # << >>
    /\ Top.incb
    /\ stack' = ReplaceTop([Top EXCEPT !.incb = FALSE, !.cur = NoEntry,
                                       !.result = Append(@, Top.cur[2])])
    /\ ret' = NoCall
    /\ UNCHANGED << objects, cached, fault, snap, log >>
    /\ UNCHANGED << sweep, tsrc >>

\* include_obj_cb returns b: if (... include_obj_cb(obj)) result.push_back(obj)
callbackReturn(b) ==
    /\ fault = "none"
    /\ stack # << >>
    /\ Top.incb
    /\ stack' = ReplaceTop([Top EXCEPT !.incb = FALSE, !.cur = NoEntry,
                                       !.result = IF b THEN Append(@, Top.cur[2]) ELSE @])
    /\ ret' = NoCall
    /\ UNCHANGED << objects, cached, fault, snap, log >>
    /\ UNCHANGED << sweep, tsrc >>

\* ++it on an invalid iterator: the process faults ...
iteratorFault ==
    /\ fault = "none"
    /\ stack # << >>
    /\ ~Top.incb
    /\ Top.ub
    /\ fault' = "invalid iterator"
    /\ ret' = NoCall
    /\ UNCHANGED << objects, cached, stack, snap, log >>
    /\ UNCHANGED << sweep, tsrc >>

\* ... or the loop goes on over whatever nodes the pointer leads to
iteratorContinue ==
    /\ fault = "none"
    /\ stack # << >>
    /\ ~Top.incb
    /\ Top.ub
    /\ \E t \in SubBag(cached) :
        stack' = ReplaceTop([Top EXCEPT !.ub = FALSE, !.todo = t])
    /\ ret' = NoCall
    /\ UNCHANGED << objects, cached, fault, snap, log >>
    /\ UNCHANGED << sweep, tsrc >>

\* getRelevantObjectIds has walked all it had to: the query returns
queryReturn ==
    /\ fault = "none"
    /\ stack # << >>
    /\ ~Top.incb
    /\ ~Top.ub
    /\ BagToSet(Top.todo) = {}
    /\ stack' = SubSeq(stack, 1, Len(stack) - 1)
    /\ ret' = NoCall
    /\ snap' = IF Len(stack) = 1 THEN EmptyBag ELSE snap
    /\ log' = IF Len(stack) = 1 THEN << >> ELSE log
    /\ UNCHANGED << objects, cached, fault >>
    /\ UNCHANGED << sweep, tsrc >>

\* --------------------------------------------------------------------- step
\* ActiveObjectMgr::step up to the loop: m_active_objects.iter() is to reach the
\* objects that are in the store now
stepStart ==
    /\ fault = "none"
    /\ stack = << >>
    /\ ~sweep.active
    /\ sweep' = [NoSweep EXCEPT !.active = TRUE, !.todo = DOMAIN objects,
                                !.start = DOMAIN objects]
    /\ ret' = NoCall
    /\ UNCHANGED << objects, cached, stack, fault, snap, log, tsrc >>

\* one turn of the loop without if (!ao_it.second) continue
stepVisit_no_null_check ==
    /\ fault = "none"
    /\ sweep.active
    /\ ~sweep.infn
    /\ \E id \in sweep.todo :
        sweep' = [sweep EXCEPT !.todo = @ \ {id}, !.infn = TRUE, !.cur = id,
                               !.called = Append(@, id)]
    /\ ret' = NoCall
    /\ UNCHANGED << objects, cached, stack, fault, snap, log, tsrc >>

\* one turn of the loop of step: a slot whose object was removed is skipped, for
\* any other f(ao_it.second.get()) is called
stepVisit ==
    /\ fault = "none"
    /\ sweep.active
    /\ ~sweep.infn
    /\ \E id \in sweep.todo :
        sweep' = IF id \in sweep.gone
                 THEN [sweep EXCEPT !.todo = @ \ {id}]
                 ELSE [sweep EXCEPT !.todo = @ \ {id}, !.infn = TRUE, !.cur = id,
                                    !.called = Append(@, id)]
    /\ ret' = NoCall
    /\ UNCHANGED << objects, cached, stack, fault, snap, log, tsrc >>

\* f returns
stepFnReturn ==
    /\ fault = "none"
    /\ sweep.active
    /\ sweep.infn
    /\ sweep' = [sweep EXCEPT !.infn = FALSE, !.cur = 0, !.ops = 0]
    /\ ret' = NoCall
    /\ UNCHANGED << objects, cached, stack, fault, snap, log, tsrc >>

\* the loop has reached every slot: step returns
stepReturn ==
    /\ fault = "none"
    /\ sweep.active
    /\ ~sweep.infn
    /\ sweep.todo = {}
    /\ sweep' = NoSweep
    /\ ret' = NoCall
    /\ UNCHANGED << objects, cached, stack, fault, snap, log, tsrc >>

\* ------------------------------------------------------------ TextureSource
\* texture names the callers ask for; "" is the name of the dummy entry
TexNames == { "", "stone.png", "dirt.png" }
\* the thread that constructed the TextureSource, and the mesh generation threads
MainThread == "main"
MeshThreads == { "mesh1", "mesh2" }
Threads == {MainThread} \cup MeshThreads

\* a thread that is in no TextureSource call
IdlePc == [at |-> "idle", name |-> "", callers |-> {}, inpq |-> FALSE]
\* the last TextureSource step: the thread that took it, and the id a call
\* returned if it ended one
NoReturn == [by |-> MainThread, returned |-> FALSE, name |-> "", id |-> 0]
Returned(t, name, id) == [by |-> t, returned |-> TRUE, name |-> name, id |-> id]
StepBy(t) == [NoReturn EXCEPT !.by = t]

\* TextureSource::TextureSource: a NULL TextureInfo named "" at index 0.
\* m_textureinfo_cache[i + 1] here is the entry of texture id i.
NewTextureSource ==
    [m_textureinfo_cache |-> << [name |-> "", texture |-> "null"] >>,
     m_name_to_id        |-> [n \in {""} |-> 0],
     m_get_texture_queue |-> << >>,
     result_queue        |-> [t \in MeshThreads |-> << >>],
     pc                  |-> [t \in Threads |-> IdlePc],
     last                |-> NoReturn]

\* a step of the TextureSource leaves the object manager alone
TextureStep(T) ==
    /\ tsrc' = T
    /\ UNCHANGED << objects, cached, stack, fault, ret, snap, log, sweep >>

\* RequestQueue::add: a request for a key that is queued already gets the caller
\* added to its callers; otherwise a new request is pushed at the back
RequestQueueAdd(queue, key, caller) ==
    IF \E i \in 1..Len(queue) : queue[i].key = key
    THEN [i \in 1..Len(queue) |->
            IF queue[i].key = key
            THEN [queue[i] EXCEPT !.callers = @ \cup {caller}]
            ELSE queue[i]]
    ELSE Append(queue, [key |-> key, callers |-> {caller}])

\* RequestQueue::pushResult: the result goes to the result queue of every caller
PushResult(results, callers, key, item) ==
    [c \in MeshThreads |->
        IF c \in callers THEN Append(results[c], [key |-> key, item |-> item])
        ELSE results[c]]

\* generateTexture returns id to thread t, in TextureSource T: to the caller of
\* getTextureId, or to processQueue, which pushes the result and loops
AfterGenerate(T, t, id) ==
    IF T.pc[t].inpq
    THEN [T EXCEPT !.result_queue = PushResult(@, T.pc[t].callers, T.pc[t].name, id),
                   !.pc[t] = [IdlePc EXCEPT !.at = "process", !.inpq = TRUE],
                   !.last = StepBy(t)]
    ELSE [T EXCEPT !.pc[t] = IdlePc,
                   !.last = Returned(t, T.pc[t].name, id)]

\* TextureSource::getTextureId up to the end of its locked lookup: the id when the
\* name is cached; otherwise the main thread goes on to generateTexture, another
\* thread to the request queue
getTextureId(t, name) ==
    /\ tsrc.pc[t].at = "idle"
    /\ IF name \in DOMAIN tsrc.m_name_to_id
       THEN TextureStep([tsrc EXCEPT !.last = Returned(t, name, tsrc.m_name_to_id[name])])
       ELSE TextureStep([tsrc EXCEPT
                !.pc[t] = [IdlePc EXCEPT !.at = IF t = MainThread THEN "generate" ELSE "queue",
                                         !.name = name],
                !.last = StepBy(t)])

\* getTextureId on another thread: m_get_texture_queue.add(name, thread, 0, &result_queue)
queueRequest(t) ==
    /\ tsrc.pc[t].at = "queue"
    /\ TextureStep([tsrc EXCEPT
            !.m_get_texture_queue = RequestQueueAdd(@, tsrc.pc[t].name, t),
            !.pc[t].at = "wait",
            !.last = StepBy(t)])

\* the wait of getTextureId without the comparison of result.key with the name
popResult_any_key(t) ==
    /\ tsrc.pc[t].at = "wait"
    /\ tsrc.result_queue[t] # << >>
    /\ LET result == Head(tsrc.result_queue[t])
       IN  TextureStep([tsrc EXCEPT !.result_queue[t] = Tail(@),
                                    !.pc[t] = IdlePc,
                                    !.last = Returned(t, tsrc.pc[t].name, result.item)])

\* result_queue.pop_front(1000) yields a result: returned if it is for the name
\* asked for, skipped otherwise
popResult(t) ==
    /\ tsrc.pc[t].at = "wait"
    /\ tsrc.result_queue[t] # << >>
    /\ LET result == Head(tsrc.result_queue[t])
           T      == [tsrc EXCEPT !.result_queue[t] = Tail(@)]
       IN  IF result.key = tsrc.pc[t].name
           THEN TextureStep([T EXCEPT !.pc[t] = IdlePc,
                                      !.last = Returned(t, result.key, result.item)])
           ELSE TextureStep([T EXCEPT !.last = StepBy(t)])

\* result_queue.pop_front(1000) times out (ItemNotFoundException): return 0
waitTimeout(t) ==
    /\ tsrc.pc[t].at = "wait"
    /\ tsrc.result_queue[t] = << >>
    /\ TextureStep([tsrc EXCEPT !.pc[t] = IdlePc,
                                !.last = Returned(t, tsrc.pc[t].name, 0)])

\* generateTexture without the lookup of the name in m_name_to_id
generateTexture_no_lookup(t) ==
    /\ tsrc.pc[t].at = "generate"
    /\ IF tsrc.pc[t].name = "" \/ t # MainThread
       THEN TextureStep(AfterGenerate(tsrc, t, 0))
       ELSE TextureStep([tsrc EXCEPT !.pc[t].at = "create", !.last = StepBy(t)])

\* TextureSource::generateTexture up to the main-thread test: 0 for the empty
\* name, the id when the name is cached, 0 on another thread than the main one
generateTexture(t) ==
    /\ tsrc.pc[t].at = "generate"
    /\ LET name == tsrc.pc[t].name
       IN  IF name = ""
           THEN TextureStep(AfterGenerate(tsrc, t, 0))
           ELSE IF name \in DOMAIN tsrc.m_name_to_id
           THEN TextureStep(AfterGenerate(tsrc, t, tsrc.m_name_to_id[name]))
           ELSE IF t # MainThread
           THEN TextureStep(AfterGenerate(tsrc, t, 0))
           ELSE TextureStep([tsrc EXCEPT !.pc[t].at = "create", !.last = StepBy(t)])

\* generateTexture from getOrGenerateImage on: the texture (NULL when there is no
\* image) is added to the caches under id = m_textureinfo_cache.size()
createTexture(t) ==
    /\ tsrc.pc[t].at = "create"
    /\ \E tex \in {"null", "texture"} :
        LET name == tsrc.pc[t].name
            id   == Len(tsrc.m_textureinfo_cache)
            T    == [tsrc EXCEPT
                       !.m_textureinfo_cache = Append(@, [name |-> name, texture |-> tex]),
                       !.m_name_to_id = [n \in DOMAIN @ \cup {name} |->
                                           IF n = name THEN id ELSE @[n]]]
        IN  TextureStep(AfterGenerate(T, t, id))

\* TextureSource::processQueue is called
processQueue(t) ==
    /\ tsrc.pc[t].at = "idle"
    /\ TextureStep([tsrc EXCEPT !.pc[t] = [IdlePc EXCEPT !.at = "process", !.inpq = TRUE],
                                !.last = StepBy(t)])

\* the loop of processQueue: it returns when m_get_texture_queue is empty, else
\* pops a request and calls generateTexture(request.key)
processNext(t) ==
    /\ tsrc.pc[t].at = "process"
    /\ IF tsrc.m_get_texture_queue = << >>
       THEN TextureStep([tsrc EXCEPT !.pc[t] = IdlePc, !.last = StepBy(t)])
       ELSE LET request == Head(tsrc.m_get_texture_queue)
            IN  TextureStep([tsrc EXCEPT
                    !.m_get_texture_queue = Tail(@),
                    !.pc[t] = [at |-> "generate", name |-> request.key,
                               callers |-> request.callers, inpq |-> TRUE],
                    !.last = StepBy(t)])

\* TextureSource::rebuildImagesAndTextures: rebuildTexture gives every entry but
\* the dummy one a texture again (NULL when there is no image)
rebuildImagesAndTextures(t) ==
    /\ tsrc.pc[t].at = "idle"
    /\ \E f \in [1..Len(tsrc.m_textureinfo_cache) -> {"null", "texture"}] :
        TextureStep([tsrc EXCEPT
            !.m_textureinfo_cache =
                [i \in 1..Len(@) |->
                    IF @[i].name = "" THEN @[i] ELSE [@[i] EXCEPT !.texture = f[i]]],
            !.last = StepBy(t)])

\* ------------------------------------------------------------ specifications
Init ==
    /\ objects = << >>
    /\ cached = EmptyBag
    /\ stack = << >>
    /\ fault = "none"
    /\ ret = NoCall
    /\ snap = EmptyBag
    /\ log = << >>
    /\ sweep = NoSweep
    /\ tsrc = NewTextureSource

\* the store after registerObject was called for new objects at the positions of
\* the sequence ps, in order, the objects getting the ids 1, 2, ...
RegisteredObjects(ps) ==
    [id \in 1..Len(ps) |-> [pos |-> ps[id], type |-> "test", gone |-> FALSE]]

\* m_cached after those calls: what insert(id, pos) files for each
RECURSIVE RegisteredCached(_)
RegisteredCached(ps) ==
    IF ps = << >> THEN EmptyBag
    ELSE ApplyEffect(RegisteredCached(SubSeq(ps, 1, Len(ps) - 1)),
                     CHOOSE eff \in insert(Len(ps), ps[Len(ps)]) : TRUE)

\* the manager after objects were registered at the positions ps
InitRegistered(ps) ==
    /\ objects = RegisteredObjects(ps)
    /\ cached = RegisteredCached(ps)
    /\ stack = << >>
    /\ fault = "none"
    /\ ret = NoCall
    /\ snap = EmptyBag
    /\ log = << >>
    /\ sweep = NoSweep
    /\ tsrc = NewTextureSource

\* scenario A: ten objects at (0,0,0), (1,0,0), ..., (9,0,0)
ScenarioAPositions == [i \in 1..10 |-> <<2 * (i - 1), 0, 0>>]
\* getObjectsInArea over the box (-1,-1,-1)-(5,1,1), no predicate
ScenarioAQuery == AreaQuery(<<-2, -2, -2>>, <<10, 2, 2>>, FALSE)
GetObjectsInAreaA == startQuery(ScenarioAQuery)

\* scenario B: one object just below the cell boundary x = 16, at (15.5,0,0), the
\* position of the half-unit grid that shares cell and side of the boundary with
\* (15.9,0,0), and one on it, at (16,0,0); then k objects far away, at (-20,0,0)
ScenarioBPositions(k) ==
    << <<31, 0, 0>>, <<32, 0, 0>> >> \o [i \in 1..k |-> <<-40, 0, 0>>]
\* getObjectsInsideRadius at (16,0,0) with radius 0.5, no predicate
ScenarioBQuery == RadiusQuery(<<32, 0, 0>>, 1, FALSE)
GetObjectsInsideRadiusB == startQuery(ScenarioBQuery)
InitScenarioB == \E k \in 0..MaxFar : InitRegistered(ScenarioBPositions(k))

\* a box corner coordinate (a whole number of units) is about to be rounded
InitCorner ==
    /\ objects = << >>
    /\ cached = EmptyBag
    /\ stack = << >>
    /\ fault = "none"
    /\ ret \in { [op |-> "corner", val |-> v] : v \in -POS_RANGE..POS_RANGE }
    /\ snap = EmptyBag
    /\ log = << >>
    /\ sweep = NoSweep
    /\ tsrc = NewTextureSource

\* getRelevantObjectIds rounds the corner coordinate: absoluteRoundUp(val)
RoundCorner ==
    /\ ret.op = "corner"
    /\ ret' = [op |-> "absoluteRoundUp", val |-> ret.val, cell |-> absoluteRoundUp(2 * ret.val)]
    /\ UNCHANGED << objects, cached, stack, fault, snap, log, sweep, tsrc >>

\* a box with min <= max on each axis and a position inside it (bounds included);
\* the three axes carry the same coordinates
InitBoundary ==
    /\ objects = << >>
    /\ cached = EmptyBag
    /\ stack = << >>
    /\ fault = "none"
    /\ ret \in { [op |-> "box", min |-> a, max |-> b, p |-> v] :
                    a \in -MaxCoord..MaxCoord, b \in -MaxCoord..MaxCoord, v \in -MaxCoord..MaxCoord }
    /\ ret.min <= ret.p /\ ret.p <= ret.max
    /\ snap = EmptyBag
    /\ log = << >>
    /\ sweep = NoSweep
    /\ tsrc = NewTextureSource

\* insert files the position under its SpatialKey, and the loops of
\* getRelevantObjectIds over [min, max) of the box reach that cell or do not
FileAndWalk ==
    /\ ret.op = "box"
    /\ LET pos == << 2 * ret.p, 2 * ret.p, 2 * ret.p >>
           box == << << 2 * ret.min, 2 * ret.min, 2 * ret.min >>,
                     << 2 * ret.max, 2 * ret.max, 2 * ret.max >> >>
       IN  ret' = [op |-> "walk", min |-> ret.min, max |-> ret.max, p |-> ret.p,
                   key |-> SpatialKey(pos), cmin |-> CellMin(box), cmax |-> CellMax(box),
                   reached |-> InCellRange(SpatialKey(pos), box)]
    /\ UNCHANGED << objects, cached, stack, fault, snap, log, sweep, tsrc >>

\* coordinates of box corners in the 16-bit range: the ends of the range, the
\* ends of the world, and some near the origin
CornerCoords == { -32768, -31000, 0, 16, 31000, 32767 }

\* a query box with min <= max on each axis whose corners lie in the 16-bit range
InitVolume ==
    /\ objects = << >>
    /\ cached = EmptyBag
    /\ stack = << >>
    /\ fault = "none"
    /\ ret \in { [op |-> "box", min |-> mn, max |-> mx] :
                    mn \in CornerCoords \X CornerCoords \X CornerCoords,
                    mx \in CornerCoords \X CornerCoords \X CornerCoords }
    /\ \A i \in 1..3 : ret.min[i] <= ret.max[i]
    /\ snap = EmptyBag
    /\ log = << >>
    /\ sweep = NoSweep
    /\ tsrc = NewTextureSource

\* getRelevantObjectIds computes min, max, diff and number_of_mapblocks_to_check
CountMapblocks ==
    /\ ret.op = "box"
    /\ LET box == << [i \in 1..3 |-> 2 * ret.min[i]], [i \in 1..3 |-> 2 * ret.max[i]] >>
       IN  \E n \in number_of_mapblocks_to_check(box) :
              ret' = [op |-> "number_of_mapblocks_to_check", min |-> ret.min, max |-> ret.max,
                      cmin |-> CellMin(box), cmax |-> CellMax(box), n |-> n]
    /\ UNCHANGED << objects, cached, stack, fault, snap, log, sweep, tsrc >>

RegisterObject == \E obj_id \in 0..MaxId, pos \in Positions : registerObject(obj_id, pos, "test")
RemoveObject == \E id \in 0..MaxId : removeObject(id)
Clear == clear
\* the hook called with any arguments
UpdateObjectPosition ==
    \E id \in 0..MaxId, o \in HookPositions, n \in HookPositions :
        updateObjectPosition(id, o, n)
\* the hook called for a live object, with any positions
UpdateLiveObjectPosition ==
    \E id \in DOMAIN objects, o \in HookPositions, n \in HookPositions :
        updateObjectPosition(id, o, n)
MoveObject == \E id \in Ids, n \in InWorldPositions : moveObject(id, n)
SetBasePosition == \E id \in Ids, n \in InWorldPositions : setBasePosition(id, n)
GetObjectsInArea == \E q \in AreaQueries : startQuery(q)
GetObjectsInsideRadius == \E q \in RadiusQueries : startQuery(q)
GetObjectsNoPredicate == \E q \in { x \in AreaQueries \cup RadiusQueries : ~x.pred } : startQuery(q)
Visit == visit
CallbackReturn == \E b \in BOOLEAN : callbackReturn(b)
IteratorFault == iteratorFault
IteratorContinue == iteratorContinue
QueryReturn == queryReturn
\* removeObject of an object that is in the store
RemoveLiveObject == \E id \in DOMAIN objects : removeObject(id)
\* registerObject of a new object (id 0) at an in-world position
RegisterNewObject == \E pos \in InWorldPositions : registerObject(0, pos, "test")
ClearIf == \E P \in SUBSET Ids : clearIf(P)
RegisterTypedObject ==
    \E pos \in InWorldPositions, type \in {"player", "generic"} : registerObject(0, pos, type)
MarkForRemoval == \E id \in Ids : markForRemoval(id)
GetAddedActiveObjectsAroundPos == \E q \in AddedQueries : startQuery(q)
MapInsert == \E id \in Ids, pos \in InWorldPositions : SpatialMapInsert(id, pos)
MapRemovePos == \E id \in Ids, pos \in InWorldPositions : SpatialMapRemovePos(id, pos)
MapRemove == \E id \in Ids : SpatialMapRemove(id)
MapUpdatePosition ==
    \E id \in Ids, o \in InWorldPositions, n \in InWorldPositions :
        SpatialMapUpdatePosition(id, o, n)
MapRemoveInsert == \E id \in Ids, pos \in InWorldPositions : SpatialMapRemoveInsert(id, pos)
MapRemoveMapblock == \E pos \in InWorldPositions : SpatialMapRemoveMapblock(pos)
\* a query over one cell, or over the box that spans the cells of InWorldPositions
MapGetRelevantObjectIds ==
    \E box \in { CellBox(pos) : pos \in InWorldPositions } \cup { << <<-64, 0, 0>>, <<64, 32, 32>> >> } :
        SpatialMapGetRelevantObjectIds(box)
\* registerObject and the queries called by the server loop, not by a predicate
ServerRegisterObject == stack = << >> /\ RegisterNewObject
GetObjectsFiltered == stack = << >> /\ \E q \in FilteredQueries : startQuery(q)
\* the include predicate of a filtered query answers for the object it was given
IncludeObjCb == stack # << >> /\ Top.incb /\ callbackReturn(Top.cur[2] \in Top.q.accept)
GetTextureId == \E t \in Threads, name \in TexNames : getTextureId(t, name)
QueueRequest == \E t \in MeshThreads : queueRequest(t)
PopResult == \E t \in MeshThreads : popResult(t)
WaitTimeout == \E t \in MeshThreads : waitTimeout(t)
GenerateTexture == generateTexture(MainThread)
CreateTexture == createTexture(MainThread)
ProcessQueue == processQueue(MainThread)
ProcessNext == processNext(MainThread)
RebuildImagesAndTextures == rebuildImagesAndTextures(MainThread)
StepStart == stepStart
StepVisit == stepVisit
StepFnReturn == stepFnReturn
StepReturn == stepReturn

\* The manager as the server uses it: objects are registered, moved through the
\* position-update hook and removed; queries run, and their include predicates
\* call back into the manager.
Next ==
    \/ RegisterObject
    \/ RemoveObject
    \/ Clear
    \/ MoveObject
    \/ GetObjectsInArea
    \/ GetObjectsInsideRadius
    \/ Visit
    \/ CallbackReturn
    \/ IteratorFault
    \/ IteratorContinue
    \/ QueryReturn

Spec == Init /\ [][Next]_vars

\* The same without include predicates: nothing is called during a traversal.
NextProtocol ==
    \/ RegisterObject
    \/ RemoveObject
    \/ Clear
    \/ MoveObject
    \/ GetObjectsNoPredicate
    \/ Visit
    \/ QueryReturn

SpecProtocol == Init /\ [][NextProtocol]_vars

\* The manager's methods called from the server loop with any arguments.
NextApi ==
    \/ RegisterObject
    \/ RemoveObject
    \/ Clear
    \/ UpdateObjectPosition

SpecApi == Init /\ [][NextApi]_vars

\* Registration, removal, the hook on live ids with any positions, clear, and
\* queries without include predicates.
NextLive ==
    \/ RegisterObject
    \/ RemoveObject
    \/ Clear
    \/ UpdateLiveObjectPosition
    \/ GetObjectsNoPredicate
    \/ Visit
    \/ IteratorFault
    \/ IteratorContinue
    \/ QueryReturn

SpecLive == Init /\ [][NextLive]_vars

\* Objects are registered, change position without the manager being told, and
\* are removed.
NextDrift ==
    \/ RegisterObject
    \/ SetBasePosition
    \/ RemoveObject
    \/ Clear

SpecDrift == Init /\ [][NextDrift]_vars

\* Objects are registered, moved through the hook and removed, one by one and by
\* clearIf.
NextClearIf ==
    \/ RegisterObject
    \/ MoveObject
    \/ RemoveLiveObject
    \/ ClearIf

SpecClearIf == Init /\ [][NextClearIf]_vars

\* step(): objects are registered and removed by the server loop and by the
\* function step calls for each object.
NextStep ==
    \/ RegisterNewObject
    \/ RemoveLiveObject
    \/ StepStart
    \/ StepVisit
    \/ StepFnReturn
    \/ StepReturn

SpecStep == Init /\ [][NextStep]_vars

\* step is one call: once begun, its loop and the function it calls run on
FairSpecStep == SpecStep /\ WF_vars(StepVisit \/ StepFnReturn \/ StepReturn)

\* The objects a client is to be told about: players and other objects are
\* registered, marked for removal, and getAddedActiveObjectsAroundPos runs.
NextAdded ==
    \/ RegisterTypedObject
    \/ MarkForRemoval
    \/ GetAddedActiveObjectsAroundPos
    \/ Visit
    \/ QueryReturn

SpecAdded == Init /\ [][NextAdded]_vars

\* A SpatialMap on its own: its methods called with any ids and positions.
NextMap ==
    \/ MapInsert
    \/ MapRemovePos
    \/ MapRemove
    \/ MapUpdatePosition
    \/ MapRemoveInsert

SpecMap == Init /\ [][NextMap]_vars

\* The rounding of box corners, for every coordinate of the benchmark's range.
NextCorner == RoundCorner

SpecCorner == InitCorner /\ [][NextCorner]_vars

\* Queries whose include predicates only read the object and answer, as those of
\* benchGetObjectsInsideRadius / benchGetObjectsInArea.
NextFilter ==
    \/ ServerRegisterObject
    \/ GetObjectsFiltered
    \/ Visit
    \/ IncludeObjCb
    \/ QueryReturn

SpecFilter == Init /\ [][NextFilter]_vars

\* Scenario A: the box query over the ten registered objects.
NextScenarioA ==
    \/ GetObjectsInAreaA
    \/ Visit
    \/ QueryReturn

SpecScenarioA == InitRegistered(ScenarioAPositions) /\ [][NextScenarioA]_vars

\* Scenario B: the radius query at the cell boundary, the manager holding the two
\* objects and any number of far-away ones.
NextScenarioB ==
    \/ GetObjectsInsideRadiusB
    \/ Visit
    \/ QueryReturn

SpecScenarioB == InitScenarioB /\ [][NextScenarioB]_vars

\* The SpatialMap with mapblocks removed and queried.
NextMapblock ==
    \/ MapInsert
    \/ MapRemove
    \/ MapRemoveMapblock
    \/ MapGetRelevantObjectIds

SpecMapblock == Init /\ [][NextMapblock]_vars

\* The cell volume of a box, as getRelevantObjectIds computes it.
NextVolume == CountMapblocks

SpecVolume == InitVolume /\ [][NextVolume]_vars

\* Filing a position and walking the cell range of a box that holds it.
NextBoundary == FileAndWalk

SpecBoundary == InitBoundary /\ [][NextBoundary]_vars

\* The TextureSource: getTextureId called from the main thread and from the mesh
\* generation threads, processQueue and rebuildImagesAndTextures on the main thread.
NextTextures ==
    \/ GetTextureId
    \/ QueueRequest
    \/ PopResult
    \/ WaitTimeout
    \/ GenerateTexture
    \/ CreateTexture
    \/ ProcessQueue
    \/ ProcessNext
    \/ RebuildImagesAndTextures

SpecTextures == Init /\ [][NextTextures]_vars

\* ================================================================== claims
\* the cached entries of an id
EntryCount(id) == BagCardinality([e \in EntriesOf(cached, id) |-> cached[e]])

\* invariant 1 of the data model: one entry per live object, under the key of its position
OneEntryPerObject ==
    \A id \in DOMAIN objects :
        /\ EntryCount(id) = 1
        /\ BagIn(<<SpatialKey(objects[id].pos), id>>, cached)

\* invariant 2: no entry of an id that is not in the store
NoStale == \A e \in BagToSet(cached) : e[2] \in DOMAIN objects

\* invariant 4: no id 0
NonZeroIds == 0 \notin DOMAIN objects /\ \A e \in BagToSet(cached) : e[2] # 0

\* C1: after any sequence of registerObject, removeObject, clear and moves through
\* the hook, whenever no traversal is active every live object has exactly one entry
\* in m_cached, under the SpatialKey of its current position, and m_cached holds as
\* many entries as the store holds objects.
C1_IndexCoherence ==
    iter_depth = 0 =>
        /\ OneEntryPerObject
        /\ BagCardinality(cached) = Cardinality(DOMAIN objects)

\* C1 witness: two live objects in different cells, each with its one entry
C1_Witness ==
    /\ iter_depth = 0
    /\ fault = "none"
    /\ DOMAIN objects = {1, 2}
    /\ objects[1].pos = <<-40, 0, 0>>
    /\ objects[2].pos = <<32, 0, 0>>
    /\ BagIn(<< <<-2, 0, 0>>, 1 >>, cached)
    /\ BagIn(<< <<1, 0, 0>>, 2 >>, cached)

\* C2: with the hook called on live ids (any positions), whenever no traversal is
\* active every id in m_cached is the id of an object in the store.
C2_NoStaleEntries == iter_depth = 0 => NoStale

\* the ids of a result vector
Range(seq) == { seq[i] : i \in 1..Len(seq) }

\* the step in which a query of the given kind, without include predicate, returns
ReturnsUnfiltered(kind) ==
    /\ stack # << >>
    /\ Len(stack') < Len(stack)
    /\ Top.q.kind = kind
    /\ ~Top.q.pred

\* C3: getObjectsInArea(B) without include predicate returns exactly the live
\* objects whose position B contains (bounds inclusive).
C3_BoxQueryCoverage ==
    [][ReturnsUnfiltered("area") =>
          Range(Top.result) =
              { id \in DOMAIN objects : isPointInside(Top.q.box, objects[id].pos) }]_vars

\* C4: getObjectsInsideRadius(c, r) without include predicate returns exactly the
\* live objects with |pos - c|^2 <= r^2.
C4_RadiusQueryCoverage ==
    [][ReturnsUnfiltered("radius") =>
          Range(Top.result) =
              { id \in DOMAIN objects :
                  getDistanceFromSQ(objects[id].pos, Top.q.pos) <= Top.q.radius * Top.q.radius }]_vars

\* C5: while a traversal is active (at any depth) and stays active, m_cached does not change.
C5_FrozenDuringTraversal ==
    [][(Len(stack) > 0 /\ Len(stack') > 0) => cached' = cached]_vars

\* C6: a query whose predicates call registerObject / removeObject / the hook is not
\* cut short by its own iterator, and once the outermost query has returned
\* (iter_depth = 0) invariants 1, 2 and 4 of the data model hold.
C6_Reentrancy ==
    /\ fault # "invalid iterator"
    /\ iter_depth = 0 => OneEntryPerObject /\ NoStale /\ NonZeroIds

\* the entries the logged calls erased, and those they inserted
RECURSIVE ErasedBag(_)
ErasedBag(l) ==
    IF l = << >> THEN EmptyBag
    ELSE (IF Head(l).erased # NoEntry THEN SetToBag({Head(l).erased}) ELSE EmptyBag)
         (+) ErasedBag(Tail(l))
RECURSIVE InsertedBag(_)
InsertedBag(l) ==
    IF l = << >> THEN EmptyBag
    ELSE (IF Head(l).inserted # NoEntry THEN SetToBag({Head(l).inserted}) ELSE EmptyBag)
         (+) InsertedBag(Tail(l))

ClearRequested == \E i \in 1..Len(log) : log[i].cleared

\* the step in which the outermost traversal ends
OutermostReturns == Len(stack) = 1 /\ stack' = << >>

\* C7: the mutations requested during a query take effect when the outermost
\* traversal ends, all deletes first, then all inserts: m_cached is then what it
\* was when the query began, less the deleted entries, plus the inserted ones.
C7_DeferredOrdering ==
    [][(OutermostReturns /\ ~ClearRequested) =>
          cached' = (snap (-) ErasedBag(log)) (+) InsertedBag(log)]_vars

\* C8: when removeAll was requested during a traversal, m_cached is empty when the
\* outermost traversal ends, whatever was inserted or deleted during it.
C8_DeferredClear ==
    [][(OutermostReturns /\ ClearRequested) => cached' = EmptyBag]_vars

\* the step is a registerObject call (ret' holds its arguments and outcome)
RegisterCalled == ret'.op = "registerObject"

\* C9: registerObject fails when the supplied non-zero id is not free or the
\* position is over the world limit; whenever it fails, the object store (and so
\* the set of allocated ids) and m_cached are as before the call, and an id that
\* was allocated for an id-0 object is still free.
C9_FailedRegistration ==
    [][RegisterCalled =>
          /\ (ret'.arg # 0 /\ ~isFreeId(ret'.arg)) => ret'.err = "id is not free"
          /\ (objectpos_over_limit(ret'.pos) /\ ret'.id # 0 /\ isFreeId(ret'.id))
                => ret'.err = "outside maximum range"
          /\ ret'.err # "none" =>
                /\ objects' = objects
                /\ cached' = cached
                /\ (ret'.arg = 0 /\ ret'.id # 0) => ret'.id \notin DOMAIN objects']_vars

\* C9 witness: with objects registered, an id-0 object at a position over the world
\* limit was given a free id and then rejected
C9_Witness ==
    /\ ret.op = "registerObject"
    /\ ret.arg = 0
    /\ ret.id # 0
    /\ ret.err = "outside maximum range"
    /\ objectpos_over_limit(ret.pos)
    /\ DOMAIN objects # {}
    /\ cached # EmptyBag

\* C10: registerObject of an id-0 object at an in-world position, while a free id
\* exists, succeeds: the object gets a non-zero id that was free, the store gains
\* exactly that object, and m_cached gains exactly one entry, (cell key of pos, id).
C10_SuccessfulRegistration ==
    [][(RegisterCalled /\ ret'.arg = 0 /\ ~objectpos_over_limit(ret'.pos)
          /\ \E id \in Ids : isFreeId(id)) =>
          /\ ret'.err = "none"
          /\ ret'.id # 0
          /\ ret'.id \notin DOMAIN objects
          /\ DOMAIN objects' = DOMAIN objects \cup {ret'.id}
          /\ objects'[ret'.id].pos = ret'.pos
          /\ \A id \in DOMAIN objects : objects'[id] = objects[id]
          /\ cached' = cached (+) SetToBag({ <<SpatialKey(ret'.pos), ret'.id>> })]_vars

\* C10 witness: an id-0 object was registered at (-20,0,0) next to an object that is
\* already there, and is filed under cell (-2,0,0)
C10_Witness ==
    /\ ret.op = "registerObject"
    /\ ret.arg = 0
    /\ ret.err = "none"
    /\ ret.pos = <<-40, 0, 0>>
    /\ Cardinality(DOMAIN objects) = 2
    /\ BagIn(<< <<-2, 0, 0>>, ret.id >>, cached)
    /\ BagCardinality(cached) = 2

\* C11: every id in the object store or in m_cached is non-zero, and an id that
\* an object holds is not free (the allocator does not hand it out again).
C11_IdDiscipline ==
    /\ NonZeroIds
    /\ \A id \in DOMAIN objects : id \in Ids /\ ~isFreeId(id) /\ id \notin getFreeId

\* C12: with K = MaxId ids, registerObject of an id-0 object at an in-world
\* position succeeds with an id no live object holds as long as fewer than K
\* objects are live (so K successive registrations succeed with distinct ids, and
\* a registration after a removal succeeds again); with K live objects it fails
\* with "no free id" and changes nothing.
C12_Exhaustion ==
    [][(RegisterCalled /\ ret'.arg = 0 /\ ~objectpos_over_limit(ret'.pos)) =>
          IF Cardinality(DOMAIN objects) < MaxId
          THEN /\ ret'.err = "none"
               /\ ret'.id \in Ids \ DOMAIN objects
               /\ DOMAIN objects' = DOMAIN objects \cup {ret'.id}
          ELSE /\ ret'.err = "no free id"
               /\ ret'.id = 0
               /\ objects' = objects
               /\ cached' = cached]_vars

\* C12 witness: all K ids are held by live objects and a further id-0 registration
\* at an in-world position was refused
C12_Witness ==
    /\ ret.op = "registerObject"
    /\ ret.arg = 0
    /\ ~objectpos_over_limit(ret.pos)
    /\ ret.err = "no free id"
    /\ DOMAIN objects = Ids
    /\ BagCardinality(cached) = MaxId

\* the step is a removeObject call for an id that is not in the object store
RemoveUnknownCalled == ret'.op = "removeObject" /\ ret'.arg \notin DOMAIN objects

\* C13: removeObject(id) for an id that is not in the object store completes
\* without fault and leaves the object store and m_cached unchanged.
C13_RemoveUnknownNoOp ==
    [][RemoveUnknownCalled =>
          /\ fault' = "none"
          /\ objects' = objects
          /\ cached' = cached]_vars

\* the step is a removeObject call for an id that is in the object store
RemoveLiveCalled == ret'.op = "removeObject" /\ ret'.arg \in DOMAIN objects

\* C14: removeObject(id) for a live id takes the object out of the store and its
\* entry out of m_cached, also when the object's position is in another cell than
\* the entry (the position changed without updateObjectPosition); the store
\* entries and the spatial entries of all other ids are unchanged.
C14_RemoveAfterDrift ==
    [][RemoveLiveCalled =>
          /\ DOMAIN objects' = DOMAIN objects \ {ret'.arg}
          /\ \A j \in DOMAIN objects' : objects'[j] = objects[j]
          /\ EntriesOf(cached', ret'.arg) = {}
          /\ \A e \in BagToSet(cached) \cup BagToSet(cached') :
                e[2] # ret'.arg => CopiesIn(e, cached') = CopiesIn(e, cached)]_vars

\* C14 witness: an object whose entry was not in the bucket of its position was
\* removed, entry included, next to another object that is still indexed
C14_Witness ==
    /\ ret.op = "removeObject"
    /\ ret.err = "not in bucket"
    /\ ret.arg \notin DOMAIN objects
    /\ EntriesOf(cached, ret.arg) = {}
    /\ \E j \in DOMAIN objects : EntryCount(j) = 1
    /\ fault = "none"

\* the step is a call of f by step(), for the object of id sweep'.cur
StepCallsFn == sweep.active /\ ~sweep.infn /\ sweep'.infn

\* the step is the return of step()
StepReturns == sweep.active /\ ~sweep'.active

\* C15: step calls f only for an object that was live when step began, is still
\* in the store and was not removed during this step, and never twice for one
\* object; when step returns, f has been called for every object that was live
\* at the start and was not removed during the step; and step, once begun,
\* returns, also when f calls removeObject on the current or another object.
C15_StepOncePerObject ==
    /\ [][/\ StepCallsFn =>
                /\ sweep'.cur \in sweep.start
                /\ sweep'.cur \in DOMAIN objects
                /\ sweep'.cur \notin sweep.gone
                /\ sweep'.cur \notin Range(sweep.called)
          /\ StepReturns =>
                /\ sweep.start \ sweep.gone \subseteq Range(sweep.called)
                /\ fault' = "none"]_vars
    /\ (sweep.active ~> ~sweep.active)

\* C15 witness: in a step over two objects f, called for object 1, has removed
\* object 2, whose turn had not come, and has then removed object 1 itself
C15_Witness ==
    /\ sweep.active
    /\ sweep.start = {1, 2}
    /\ sweep.called = << 1 >>
    /\ sweep.infn
    /\ sweep.gone = {1, 2}
    /\ sweep.todo = {2}
    /\ fault = "none"

\* the step is a clearIf call
ClearIfCalled == ret'.op = "clearIf"

\* C16: after clearIf(pred), called outside any query, every object for which
\* pred returned true (the objects the call removed) is absent from the store and
\* has no entry in m_cached, the other objects keep their store and spatial
\* entries, and when every object was removed both the store and m_cached are empty.
C16_ClearIfCoherent ==
    [][(ClearIfCalled /\ iter_depth = 0) =>
          /\ \A id \in DOMAIN objects \ DOMAIN objects' : EntriesOf(cached', id) = {}
          /\ \A id \in DOMAIN objects' :
                /\ id \in DOMAIN objects
                /\ objects'[id] = objects[id]
                /\ \A e \in EntriesOf(cached, id) : CopiesIn(e, cached') = CopiesIn(e, cached)
          /\ objects' = << >> => cached' = EmptyBag]_vars

\* the step is a clear call
ClearCalled == ret'.op = "clear"

\* C17: clear(), called outside a query in any reachable state (stale, duplicate
\* and id-0 entries included), leaves the object store and m_cached empty.
C17_ClearEmpties ==
    [][(ClearCalled /\ iter_depth = 0) =>
          /\ objects' = << >>
          /\ cached' = EmptyBag
          /\ fault' = "none"]_vars

\* C17 witness: clear() was called on a manager whose m_cached held three entries,
\* and left nothing
C17_Witness ==
    /\ ret.op = "clear"
    /\ ret.arg = 3
    /\ objects = << >>
    /\ cached = EmptyBag
    /\ iter_depth = 0

\* C18: when a traversal reaches an entry whose id is not in the object store, the
\* query goes on over valid iterators (it visits the other candidate entries) and
\* completes without fault.
C18_StaleSelfHeal ==
    /\ fault # "invalid iterator"
    /\ \A i \in 1..Len(stack) : ~stack[i].ub

\* the step in which getAddedActiveObjectsAroundPos returns
ReturnsAdded ==
    /\ stack # << >>
    /\ Len(stack') < Len(stack)
    /\ Top.q.kind = "added"

\* the objects getAddedActiveObjectsAroundPos(q) is to emit: live, not gone, not
\* known already, within player_radius for a player (no limit when it is 0) and
\* within radius for another object
AddedExpected(q) ==
    { id \in DOMAIN objects :
        /\ ~objects[id].gone
        /\ id \notin q.current_objects
        /\ IF objects[id].type = "player"
           THEN \/ q.player_radius = 0
                \/ getDistanceFromSQ(objects[id].pos, q.pos) <= q.player_radius * q.player_radius
           ELSE getDistanceFromSQ(objects[id].pos, q.pos) <= q.radius * q.radius }

\* C19: getAddedActiveObjectsAroundPos with player_r > 0 emits exactly the live
\* objects that are not gone, not in already_known, and at distance <= player_r
\* (players) or <= r (other objects).
C19_AddedAroundPos ==
    [][(ReturnsAdded /\ Top.q.player_radius > 0) =>
          Range(Top.result) = AddedExpected(Top.q)]_vars

\* C20: with player_r = 0 every live player that is not gone and not in
\* already_known is emitted, whatever its distance and however many objects the
\* manager holds.
C20_PlayerLimitDisabled ==
    [][(ReturnsAdded /\ Top.q.player_radius = 0) =>
          \A id \in DOMAIN objects :
              (objects[id].type = "player" /\ ~objects[id].gone
                 /\ id \notin Top.q.current_objects) => id \in Range(Top.result)]_vars

\* the step is a call of the SpatialMap method op
MapCall(op) == ret'.op = op /\ (ret' # ret \/ cached' # cached)

\* C21: updatePosition(id, old_pos, new_pos) does nothing when cell(old_pos) =
\* cell(new_pos) and id has an entry there; otherwise it does what remove(id,
\* old_pos), with its fallback to remove(id), followed by insert(id, new_pos) does;
\* an id that had one entry has one entry afterwards, in cell(new_pos).
C21_UpdatePosition ==
    [][MapCall("updatePosition") =>
          LET id     == ret'.id
              oldKey == SpatialKey(ret'.old)
              newKey == SpatialKey(ret'.pos)
          IN  /\ IF oldKey = newKey /\ BagIn(<<newKey, id>>, cached)
                 THEN cached' = cached
                 ELSE \E e \in remove_pos(id, ret'.old) :
                         cached' = BagAdd(ApplyEffect(cached, e), <<newKey, id>>)
              /\ EntryCount(id) = 1 =>
                    /\ BagCardinality([e \in EntriesOf(cached', id) |-> cached'[e]]) = 1
                    /\ BagIn(<<newKey, id>>, cached')]_vars

\* C22: updatePosition(id, p, p) leaves m_cached unchanged, for any id and any
\* position p.
C22_UpdateSamePosition ==
    [][(MapCall("updatePosition") /\ ret'.old = ret'.pos) => cached' = cached]_vars

\* C22, for an id that has an entry in cell(p): updatePosition(id, p, p) leaves
\* m_cached unchanged.
C22_UpdateSamePositionPresent ==
    [][(/\ MapCall("updatePosition")
        /\ ret'.old = ret'.pos
        /\ BagIn(<<SpatialKey(ret'.pos), ret'.id>>, cached)) => cached' = cached]_vars

\* updatePosition(id, p, p) has returned for an id filed in cell(p), next to an
\* entry of another id: m_cached has the size it had
C22_Witness ==
    /\ ret.op = "updatePosition"
    /\ ret.old = ret.pos
    /\ ret.arg = BagCardinality(cached)
    /\ ret.arg = 2
    /\ EntryCount(ret.id) = 1
    /\ BagIn(<<SpatialKey(ret.pos), ret.id>>, cached)

\* C23: from any state, remove(id, pos) followed by insert(id, pos) leaves m_cached
\* equal, as a multiset of (cell, id) pairs, to what it was.
C23_RemoveInsertRoundTrip ==
    [][MapCall("remove_pos, insert") => cached' = cached]_vars

\* C23, from a state where id has an entry in cell(pos): remove(id, pos) followed
\* by insert(id, pos) leaves m_cached equal, as a multiset, to what it was.
C23_RemoveInsertRoundTripPresent ==
    [][(MapCall("remove_pos, insert") /\ BagIn(<<SpatialKey(ret'.pos), ret'.id>>, cached))
          => cached' = cached]_vars

\* remove(id, pos), insert(id, pos) have run for an id that was filed in cell(pos),
\* in a cell other than (0,0,0) and next to another entry
C23_Witness ==
    /\ ret.op = "remove_pos, insert"
    /\ ret.err = "none"
    /\ ret.arg = 2
    /\ BagCardinality(cached) = 2
    /\ SpatialKey(ret.pos) # <<0, 0, 0>>
    /\ BagIn(<<SpatialKey(ret.pos), ret.id>>, cached)

\* C24: remove(id, pos) and remove(id) each remove at most one entry, and only an
\* entry carrying id: the entry of id in cell(pos) when there is one, otherwise one
\* entry of id anywhere; when id has no entry m_cached is unchanged and nothing
\* fails.  Entries of other ids stay.
C24_RemoveFrame ==
    [][(MapCall("remove_pos") \/ MapCall("remove")) =>
          LET id == ret'.id
              e0 == <<SpatialKey(ret'.pos), id>>
          IN  /\ fault' = "none"
              /\ IF EntriesOf(cached, id) = {}
                 THEN cached' = cached
                 ELSE \E e \in EntriesOf(cached, id) :
                         /\ cached' = BagRemove(cached, e)
                         /\ (ret'.op = "remove_pos" /\ BagIn(e0, cached)) => e = e0]_vars

\* remove(id, pos) has returned for an id that was filed in another cell only: the
\* fallback erased that entry, and the entry of another id is still there
C24_Witness ==
    /\ ret.op = "remove_pos"
    /\ ret.err = "not in bucket"
    /\ ret.arg = 2
    /\ BagCardinality(cached) = 1
    /\ EntriesOf(cached, ret.id) = {}
    /\ fault = "none"

\* C25: for every integer coordinate v in [-2001, 2001] the cell index c that the
\* rounding of box corners gives contains the point: c*16 <= v <= (c+1)*16.
C25_RoundOutwardContains ==
    ret.op = "absoluteRoundUp" =>
        ret.cell * 16 <= ret.val /\ ret.val <= (ret.cell + 1) * 16

\* a step of the query that is running, which stays running
QueryStep == stack # << >> /\ Len(stack') = Len(stack) /\ stack' # stack

\* the object appended to the output by the step, 0 when none is
Appended ==
    LET F == Top
        G == stack'[Len(stack')]
    IN  IF Len(G.result) = Len(F.result) + 1 THEN G.result[Len(G.result)] ELSE 0

\* the step ends the lambda's work on a live object id that passed the exact test
\* and that the predicate, when there is one, accepted
Admits(id) ==
    LET F == Top
        G == stack'[Len(stack')]
    IN  /\ id \in DOMAIN objects
        /\ PassesTest(F.q, id)
        /\ IF F.q.pred
           THEN F.incb /\ ~G.incb /\ F.cur[2] = id /\ id \in F.q.accept
           ELSE ~F.incb /\ F.todo (-) G.todo = SetToBag({<<SpatialKey(objects[id].pos), id>>})

C27_PredicateMutationSafe ==
    [][(/\ stack # << >>
        /\ Top.incb
        /\ ret'.op \in {"registerObject", "removeObject"}
        /\ ret' # ret) =>
          /\ fault' = "none"
          /\ \A i \in 1..Len(stack') : ~stack'[i].ub]_vars

\* the objects at x = lo .. hi (in units) on the x axis
OnAxis(lo, hi) ==
    { id \in DOMAIN objects :
        /\ 2 * lo <= objects[id].pos[1] /\ objects[id].pos[1] <= 2 * hi
        /\ objects[id].pos[2] = 0 /\ objects[id].pos[3] = 0 }

\* C28: with ten objects at (0,0,0) .. (9,0,0), getObjectsInArea over the box
\* (-1,-1,-1)-(5,1,1) without predicate returns exactly the five objects at x = 0..4.
C28_ScenarioA ==
    [][(ReturnsUnfiltered("area") /\ Top.q = ScenarioAQuery) =>
          Range(Top.result) = OnAxis(0, 4) /\ Len(Top.result) = 5]_vars

\* C28, with the bounds of the box inclusive: the query returns exactly the six
\* objects at x = 0..5, each once.
C28_ScenarioAInclusive ==
    [][(ReturnsUnfiltered("area") /\ Top.q = ScenarioAQuery) =>
          Range(Top.result) = OnAxis(0, 5) /\ Len(Top.result) = 6]_vars

\* the query of scenario A has walked all ten entries: the object at (5,0,0) is
\* among the six it is about to return
C28_Witness ==
    /\ stack # << >>
    /\ Top.q = ScenarioAQuery
    /\ BagCardinality(cached) = 10
    /\ BagToSet(Top.todo) = {}
    /\ Len(Top.result) = 6
    /\ \E id \in Range(Top.result) : objects[id].pos = <<10, 0, 0>>

\* C29: with one object just below x = 16 and one at (16,0,0), the radius query
\* at (16,0,0) with r = 0.5 returns both, also when the manager holds enough
\* far-away objects for the query to walk the cells.
C29_ScenarioB ==
    [][(ReturnsUnfiltered("radius") /\ Top.q = ScenarioBQuery) =>
          Range(Top.result) = {1, 2}]_vars

\* the id table of the TextureSource is consistent: no two entries of
\* m_textureinfo_cache have the same name, every cached name maps to the entry
\* that has this name, and id 0 is the entry named "" with a null texture
TextureTableConsistent ==
    LET cache == tsrc.m_textureinfo_cache
        ids   == tsrc.m_name_to_id
    IN  /\ \A i, j \in 1..Len(cache) : cache[i].name = cache[j].name => i = j
        /\ \A n \in DOMAIN ids :
             /\ ids[n] \in 0..(Len(cache) - 1)
             /\ cache[ids[n] + 1].name = n
        /\ "" \in DOMAIN ids /\ ids[""] = 0
        /\ cache[1] = [name |-> "", texture |-> "null"]

\* a step keeps every assigned id, and the table grows in steps of the main
\* thread only
TextureTableStable ==
    LET cache == tsrc.m_textureinfo_cache
        ids   == tsrc.m_name_to_id
    IN  /\ \A n \in DOMAIN ids :
             n \in DOMAIN tsrc'.m_name_to_id /\ tsrc'.m_name_to_id[n] = ids[n]
        /\ Len(tsrc'.m_textureinfo_cache) >= Len(cache)
        /\ \A i \in 1..Len(cache) : tsrc'.m_textureinfo_cache[i].name = cache[i].name
        /\ (\/ Len(tsrc'.m_textureinfo_cache) > Len(cache)
            \/ DOMAIN tsrc'.m_name_to_id # DOMAIN ids) => tsrc'.last.by = MainThread

\* C30: under any interleaving of getTextureId calls from the main thread and from
\* other threads with processQueue on the main thread, each name maps to at most
\* one id, m_textureinfo_cache[m_name_to_id[name]].name = name for every cached
\* name, id 0 is always the entry named "" with a null texture, an id once
\* assigned to a name never changes, and only the main thread appends to the table.
C30_TextureIdTable == [](TextureTableConsistent) /\ [][TextureTableStable]_vars

\* a mesh thread was handed the id of the second texture of the table, which
\* processQueue generated for it
C30_Witness ==
    /\ Len(tsrc.m_textureinfo_cache) = 3
    /\ tsrc.last.returned /\ tsrc.last.by \in MeshThreads /\ tsrc.last.id = 2
    /\ tsrc.m_name_to_id[tsrc.last.name] = 2

\* a getTextureId call of mesh thread t that does not find its name cached
\* does not return: it adds t to the one queued request for the name (a new
\* request at the back when none is queued) and waits
RequestEnqueued(t) ==
    LET queue  == tsrc.m_get_texture_queue
        queue2 == tsrc'.m_get_texture_queue
        name   == tsrc.pc[t].name
        Keys(q) == { q[i].key : i \in 1..Len(q) }
    IN  /\ tsrc.pc[t].at = "idle" /\ tsrc'.pc[t].at # "idle"
           => /\ tsrc'.pc[t].at = "queue"
              /\ tsrc'.pc[t].name \notin DOMAIN tsrc.m_name_to_id
              /\ ~tsrc'.last.returned
              /\ queue2 = queue
        /\ tsrc.pc[t].at = "queue" /\ tsrc'.pc[t] # tsrc.pc[t]
           => /\ tsrc'.pc[t].at = "wait" /\ tsrc'.pc[t].name = name
              /\ ~tsrc'.last.returned
              /\ Cardinality({ i \in 1..Len(queue2) : queue2[i].key = name }) = 1
              /\ \E i \in 1..Len(queue2) : queue2[i].key = name /\ t \in queue2[i].callers
              /\ Len(queue2) = IF name \in Keys(queue) THEN Len(queue) ELSE Len(queue) + 1
              /\ \A i \in 1..Len(queue) :
                    /\ queue2[i].key = queue[i].key
                    /\ queue2[i].callers = queue[i].callers \cup
                          (IF queue[i].key = name THEN {t} ELSE {})

\* processQueue returns with an empty request queue, and what it pushes for a
\* popped request is the id of the request's key, to every caller of the request
QueueAnswered ==
    LET pc == tsrc.pc[MainThread]
    IN  /\ pc.at = "process" /\ tsrc'.pc[MainThread].at = "idle"
           => tsrc.m_get_texture_queue = << >> /\ tsrc'.m_get_texture_queue = << >>
        /\ pc.at = "process" /\ tsrc'.pc[MainThread].at = "generate"
           => /\ tsrc.m_get_texture_queue # << >>
              /\ tsrc'.m_get_texture_queue = Tail(tsrc.m_get_texture_queue)
              /\ tsrc'.pc[MainThread].name = Head(tsrc.m_get_texture_queue).key
              /\ tsrc'.pc[MainThread].callers = Head(tsrc.m_get_texture_queue).callers
        /\ pc.inpq /\ pc.at \in {"generate", "create"} /\ tsrc'.pc[MainThread].at = "process"
           => /\ pc.name \in DOMAIN tsrc'.m_name_to_id
              /\ \A c \in MeshThreads :
                    tsrc'.result_queue[c] =
                        IF c \in pc.callers
                        THEN Append(tsrc.result_queue[c],
                                    [key |-> pc.name, item |-> tsrc'.m_name_to_id[pc.name]])
                        ELSE tsrc.result_queue[c]

\* a waiting mesh thread t skips a result for another name, and returns either
\* the item of a result for its name, which is the non-zero id cached for the
\* name, or 0 when no result is there within the timeout
WaiterReturns(t) ==
    LET name    == tsrc.pc[t].name
        results == tsrc.result_queue[t]
    IN  tsrc.pc[t].at = "wait" /\ tsrc'.last.by = t
        => IF results = << >>
           THEN tsrc'.pc[t].at = "idle" /\ tsrc'.last = Returned(t, name, 0)
           ELSE /\ tsrc'.result_queue[t] = Tail(results)
                /\ IF Head(results).key = name
                   THEN /\ tsrc'.pc[t].at = "idle"
                        /\ tsrc'.last = Returned(t, name, Head(results).item)
                        /\ Head(results).item # 0
                        /\ name \in DOMAIN tsrc.m_name_to_id
                        /\ Head(results).item = tsrc.m_name_to_id[name]
                   ELSE tsrc'.pc[t] = tsrc.pc[t] /\ ~tsrc'.last.returned

\* C31: a getTextureId(name) call from a non-main thread for an uncached name
\* enqueues one request and blocks; each processQueue run on the main thread empties
\* the request queue and answers every popped request with the id of its key; the
\* waiting caller returns only an id delivered for the name it asked for (results
\* for other names are skipped), or 0 if no matching result arrives within the
\* timeout, so that a caller answered before the timeout returns the cached
\* non-zero id of the name.
C31_RequestProtocol ==
    [][/\ \A t \in MeshThreads : RequestEnqueued(t) /\ WaiterReturns(t)
       /\ QueueAnswered]_vars

\* mesh1 returned the non-zero id that processQueue delivered for its name, and
\* mesh2 waits with a result for another name than the one it asked for in front
\* of its result queue
C31_Witness ==
    /\ tsrc.last.returned /\ tsrc.last.by = "mesh1" /\ tsrc.last.id = 2
    /\ tsrc.pc["mesh1"].at = "idle"
    /\ tsrc.pc["mesh2"].at = "wait"
    /\ tsrc.result_queue["mesh2"] # << >>
    /\ Head(tsrc.result_queue["mesh2"]).key # tsrc.pc["mesh2"].name

\* C32: for every world coordinate v, the cell component under which insert,
\* updatePosition and remove file a position (the SpatialKey built from the
\* position) equals the cell that the query code computes for a box corner at v
\* (absoluteRoundUp), for negative, zero and positive v, multiples of 16 or not.
C32_SameCellFunction ==
    ret.op = "absoluteRoundUp" =>
        SpatialKey(<< 2 * ret.val, 2 * ret.val, 2 * ret.val >>) = << ret.cell, ret.cell, ret.cell >>

\* C33: for every box with min <= max on each axis and every position p with
\* box.min <= p <= box.max (bounds included, p on a cell boundary, p equal to a box
\* bound, negative coordinates), the cell under which insert files p lies inside
\* the half-open cell range [cell(box.min), cell(box.max)) that getRelevantObjectIds
\* walks, so that the walk reaches the object.
C33_BoundaryDiscoverable == ret.op = "walk" => ret.reached

\* the entries the callback is to be invoked for, once per entry, when the cell
\* range is walked if N <= M + slack and m_cached is scanned otherwise
StrategyEntries(q, slack) ==
    IF NumberOfMapblocks(q.box) <= BagCardinality(cached) + slack
    THEN WalkEntries(q.box)
    ELSE cached

\* C34: with N = |cmax-cmin|.x * .y * .z and M = cached.size(), getRelevantObjectIds
\* walks the cell range and invokes the callback once per entry stored in a cell of
\* [cmin, cmax), and for no other entry, when N <= M for a box query and when
\* N <= M + 100 for a radius query; otherwise it scans cached and invokes the
\* callback once for every entry; with an empty cached it invokes it zero times.
C34_AdaptiveStrategy ==
    [][Len(stack') = Len(stack) + 1 =>
          LET F == stack'[Len(stack')]
          IN  /\ BagToSet(cached) # {}
              /\ F.todo = StrategyEntries(F.q, IF F.q.kind = "radius" THEN 100 ELSE 0)]_vars

\* what the scan of m_cached followed by the exact test of query q gives: the
\* objects with an entry that pass the test
ScanResult(q) ==
    { id \in DOMAIN objects : EntriesOf(cached, id) # {} /\ PassesTest(q, id) }

\* C35: for a fixed query and a fixed set S of objects, registering additional
\* objects far outside the query region never changes which objects of S the
\* query returns: the cell walk gives the same result, after the exact test, as
\* the scan of all entries. Here S is the two objects of scenario B, next to any
\* number of far objects.
C35_StrategyIndependence ==
    [][(ReturnsUnfiltered("radius") /\ Top.q = ScenarioBQuery) =>
          Range(Top.result) \cap {1, 2} = ScanResult(Top.q) \cap {1, 2}]_vars

\* C36: after any sequence of registerObject, removeObject, updateObjectPosition
\* (with any old_pos argument), clearIf, clear and re-registration with re-used
\* ids, m_cached never contains two entries carrying the same id.
C36_OneEntryPerId == \A id \in 0..MaxId : EntryCount(id) <= 1

\* the ids that have an entry in the bag of entries B
IdsIn(B) == { e[2] : e \in BagToSet(B) }

\* C37: updateObjectPosition(id, old, new) for an id that is not in the object
\* store (id 0 and ids that were removed included) does not add any entry to
\* m_cached: a step that leaves the store alone adds no id that the store lacks.
C37_UpdateNonLiveId ==
    [][objects' = objects => (IdsIn(cached') \ IdsIn(cached)) \subseteq DOMAIN objects]_vars

\* the entries of the bag B that are stored under another cell than that of pos
OtherCells(B, pos) ==
    LET S == { e \in BagToSet(B) : e[1] # SpatialKey(pos) }
    IN  [e \in S |-> B[e]]

\* C38: removeMapblock(origin) removes every entry whose cell equals the cell of
\* origin and no other entry: the entries of all other cells are unchanged, and a
\* query over that cell right afterwards emits no id.
C38_RemoveMapblock ==
    [][/\ ret'.op = "removeMapblock" =>
            /\ \A e \in BagToSet(cached') : e[1] # SpatialKey(ret'.pos)
            /\ OtherCells(cached', ret'.pos) = OtherCells(cached, ret'.pos)
       /\ (/\ ret.op = "removeMapblock"
           /\ ret'.op = "getRelevantObjectIds"
           /\ ret'.box = CellBox(ret.pos)) => ret'.emitted = EmptyBag]_vars

\* removeMapblock was called on a map of three entries, two of them in the cell
\* of the origin: the one entry of another cell is what is left
C38_Witness ==
    /\ ret.op = "removeMapblock"
    /\ ret.arg = 3
    /\ BagCardinality(cached) = 1
    /\ \A e \in BagToSet(cached) : e[1] # SpatialKey(ret.pos)

\* C39: the cell volume N used to choose the query strategy equals the exact
\* product |dx| * |dy| * |dz| for every query box whose corners lie in the 16-bit
\* coordinate range [-32768, 32767]: the 32-bit product of the three per-axis cell
\* counts does not overflow. N is written as a uint64_t of four 16-bit digits.
C39_ExactCellVolume ==
    ret.op = "number_of_mapblocks_to_check" =>
        ret.n = u64(Product(AbsInt(ret.cmax[1] - ret.cmin[1]) * AbsInt(ret.cmax[2] - ret.cmin[2]),
                            AbsInt(ret.cmax[3] - ret.cmin[3])))

====
